---- MODULE Spec2Model ----
(***************************************************************************)
(* salt/modules/mac_pkgutil.py: the pkgutil execution module.              *)
(*                                                                         *)
(* Text is a sequence of tokens.  "\n" is a line break, ":" is a colon,    *)
(* " " is a blank; every other token stands for one character (or a run    *)
(* of characters) that is neither a line break nor a colon.  A package ID  *)
(* and a source are texts without line breaks.                             *)
(*                                                                         *)
(* Every public function is one action: the module is synchronous and a    *)
(* call runs to completion.  The result of the latest call, with the       *)
(* collaborator calls it made in order, is kept in `last`.                 *)
(***************************************************************************)
EXTENDS Integers, Sequences, FiniteSets, TLC

VARIABLES
    pkgsText,   \* what `pkgutil --pkgs` prints now: the receipt database
    files,      \* the local paths that exist (os.path.exists)
    last        \* the latest call: arguments, result, collaborator calls

vars == <<pkgsText, files, last>>

---------------------------------------------------------------------------
(* Bounds and the inputs the calls are drawn from *)

MaxPkgs == 2
MaxText == 4

NL == "\n"
COLON == ":"
SP == " "

ListChars == {"a", "b", NL}

ID_a == <<"a">>
ID_b == <<"b">>
ID_ab == <<"a", "b">>
PackageIDs == {ID_a, ID_b, ID_ab}

PATH_A == <<"/tmp/a.pkg">>
PATH_XY == <<"/tmp/x", COLON, "y.pkg">>
PATH_NONE == <<"/nonexistent/path">>
URI_HTTP == <<"http", COLON, "//example.com/pkg">>
URI_FTP == <<"FTP", COLON, "//example.com/pkg">>
Sources == {PATH_A, PATH_XY, PATH_NONE, URI_HTTP, URI_FTP}
LocalFiles == {PATH_A, PATH_XY}

\* the receipt a package archive carries
Payload(path) == IF path = PATH_A THEN ID_a ELSE ID_ab

---------------------------------------------------------------------------
(* Python's str methods *)

IndexOf(s, c) ==
    IF \E i \in DOMAIN s : s[i] = c
    THEN CHOOSE i \in DOMAIN s : s[i] = c /\ \A j \in 1..(i - 1) : s[j] # c
    ELSE 0

Tail_after(s, i) == SubSeq(s, i + 1, Len(s))

\* str.splitlines(): a line break ends a line; no empty last line
RECURSIVE splitlines(_)
splitlines(s) ==
    IF s = <<>> THEN <<>>
    ELSE LET i == IndexOf(s, NL)
         IN  IF i = 0 THEN <<s>>
             ELSE <<SubSeq(s, 1, i - 1)>> \o splitlines(Tail_after(s, i))

\* str.split(sep): every occurrence of sep separates
RECURSIVE split(_, _)
split(s, sep) ==
    LET i == IndexOf(s, sep)
    IN  IF i = 0 THEN <<s>>
        ELSE <<SubSeq(s, 1, i - 1)>> \o split(Tail_after(s, i), sep)

\* '...{}...'.format(arg)
Format(fmt, arg) == <<fmt, arg>>

---------------------------------------------------------------------------
(* Results and collaborator calls *)

NoVal == <<>>
NoMsg == <<>>

Ev(call, arg, ok) == [call |-> call, arg |-> arg, ok |-> ok]

CMD_PKGS == "pkgutil --pkgs"
CMD_INFO == "pkgutil --pkg-info {}"
CMD_FORGET == "pkgutil --forget {}"
CMD_INSTALLER == "installer -pkg {} -target /"
CALL_URLPARSE == "urllib.parse.urlparse"
CALL_EXISTS == "os.path.exists"
ProcessCalls == {CMD_PKGS, CMD_INFO, CMD_FORGET, CMD_INSTALLER}

Returned(val, trace) == [tag |-> "ok", val |-> val, msg |-> NoMsg, trace |-> trace]
Raised(exc, msg, trace) == [tag |-> exc, val |-> NoVal, msg |-> msg, trace |-> trace]

---------------------------------------------------------------------------
(* list_ and is_installed *)

\* salt.utils.mac_utils.execute_return_result: the command's standard output
execute_return_result(stdout) == stdout

list_(db) ==
    Returned(splitlines(execute_return_result(db)), <<Ev(CMD_PKGS, <<>>, TRUE)>>)

\* the ID looked for in the listing's text instead of among its lines
is_installed_substring(package_id, db) ==
    LET l == list_(db)
        ret == execute_return_result(db)
    IN  Returned(\E i \in 1..(Len(ret) - Len(package_id) + 1) :
                    SubSeq(ret, i, i + Len(package_id) - 1) = package_id,
                 l.trace)

is_installed(package_id, db) ==
    LET l == list_(db)
    IN  Returned(\E i \in DOMAIN l.val : l.val[i] = package_id, l.trace)

---------------------------------------------------------------------------
(* info, version, install_time *)

KEY_VERSION == <<"version">>
KEY_INSTALL_TIME == <<"install-time">>

INFO_PLAIN ==
    <<"version", COLON, SP, "1", ".", "0", NL,
      "install-time", COLON, SP, "1", "7", NL>>
INFO_COLON_IN_VALUE ==
    <<"version", COLON, SP, "1", ".", "0", NL,
      "location", COLON, SP, "/a", COLON, "b", NL,
      "install-time", COLON, SP, "1", "7", NL>>
INFO_REPEATED_KEY ==
    <<"version", COLON, SP, "1", NL,
      "version", COLON, SP, "7", NL,
      "install-time", COLON, SP, "x", NL>>
INFO_NO_SEPARATOR == <<"version", NL>>
INFO_OTHER_KEYS == <<"volume", COLON, SP, "/", NL>>
InfoOutputs ==
    {INFO_PLAIN, INFO_COLON_IN_VALUE, INFO_REPEATED_KEY, INFO_NO_SEPARATOR,
     INFO_OTHER_KEYS}

\* dict(iterable of sequences): every element must have exactly two items;
\* a repeated key keeps its last value
dict(items, trace) ==
    IF \E i \in DOMAIN items : Len(items[i]) # 2
    THEN Raised("ValueError",
                Format("dictionary update sequence element #{} has a length other than 2",
                       <<>>),
                trace)
    ELSE Returned(
            [k \in {items[i][1] : i \in DOMAIN items} |->
                items[CHOOSE i \in DOMAIN items :
                        /\ items[i][1] = k
                        /\ \A j \in DOMAIN items : items[j][1] = k => j <= i][2]],
            trace)

\* info without its is_installed check
info_unchecked(package_id, db, out) ==
    LET result == execute_return_result(out)
        lines == splitlines(result)
    IN  dict([i \in DOMAIN lines |-> split(lines[i], COLON)],
             <<Ev(CMD_INFO, package_id, TRUE)>>)

info(package_id, db, out) ==
    LET chk == is_installed(package_id, db)
    IN  IF chk.val
        THEN LET result == execute_return_result(out)
                 lines == splitlines(result)
             IN  dict([i \in DOMAIN lines |-> split(lines[i], COLON)],
                      chk.trace \o <<Ev(CMD_INFO, package_id, TRUE)>>)
        ELSE Raised("SaltInvocationError",
                    Format("Package ID {} is not installed", package_id),
                    chk.trace)

version(package_id, db, out) ==
    LET ret == info(package_id, db, out)
    IN  IF ret.tag # "ok" THEN ret
        ELSE IF KEY_VERSION \notin DOMAIN ret.val
        THEN Raised("KeyError", Format("{}", KEY_VERSION), ret.trace)
        ELSE Returned(ret.val[KEY_VERSION], ret.trace)

\* int(str): blanks around the digits are dropped; anything else is refused
Digits == <<"0", "1", "2", "3", "4", "5", "6", "7", "8", "9">>
IsDigit(c) == \E i \in DOMAIN Digits : Digits[i] = c
DigitVal(c) == (CHOOSE i \in DOMAIN Digits : Digits[i] = c) - 1

RECURSIVE strip(_)
strip(s) ==
    IF s = <<>> THEN s
    ELSE IF Head(s) = SP THEN strip(Tail(s))
    ELSE IF s[Len(s)] = SP THEN strip(SubSeq(s, 1, Len(s) - 1))
    ELSE s

RECURSIVE DecimalVal(_)
DecimalVal(s) ==
    IF s = <<>> THEN 0
    ELSE DecimalVal(SubSeq(s, 1, Len(s) - 1)) * 10 + DigitVal(s[Len(s)])

int_ok(s) == strip(s) # <<>> /\ \A i \in DOMAIN strip(s) : IsDigit(strip(s)[i])
int(s) == DecimalVal(strip(s))

\* time.strftime(fmt, time.localtime(secs)): a string of the host's local time
strftime_localtime(fmt, secs) == [fmt |-> fmt, localtime |-> secs]

install_time(package_id, convert, db, out) ==
    LET time_fmt == "%Y-%m-%d %H:%M:%S"
        pkginfo == info(package_id, db, out)
    IN  IF pkginfo.tag # "ok" THEN pkginfo
        ELSE IF KEY_INSTALL_TIME \notin DOMAIN pkginfo.val
        THEN Raised("KeyError", Format("{}", KEY_INSTALL_TIME), pkginfo.trace)
        ELSE IF ~int_ok(pkginfo.val[KEY_INSTALL_TIME])
        THEN Raised("ValueError",
                    Format("invalid literal for int() with base 10: {}",
                           pkginfo.val[KEY_INSTALL_TIME]),
                    pkginfo.trace)
        ELSE LET install_datetime == int(pkginfo.val[KEY_INSTALL_TIME])
             IN  IF ~convert
                 THEN Returned(install_datetime, pkginfo.trace)
                 ELSE Returned(strftime_localtime(time_fmt, install_datetime),
                               pkginfo.trace)

---------------------------------------------------------------------------
(* The package tools and the command runner *)

ReceiptLines(db) == {splitlines(db)[i] : i \in DOMAIN splitlines(db)}

RECURSIVE WithoutLine(_, _)
WithoutLine(lines, id) ==
    IF lines = <<>> THEN <<>>
    ELSE IF Head(lines) = id THEN WithoutLine(Tail(lines), id)
    ELSE Head(lines) \o <<NL>> \o WithoutLine(Tail(lines), id)

\* `installer -pkg path -target /`: exit status 0 and the archive's receipt
\* is in the database, or a failure and the database is as before
RunInstaller(path, db, exit_ok) ==
    IF exit_ok /\ Payload(path) \notin ReceiptLines(db)
    THEN (IF db = <<>> \/ db[Len(db)] = NL THEN db ELSE db \o <<NL>>)
         \o Payload(path) \o <<NL>>
    ELSE db

\* `pkgutil --forget id`: exit status 0 and the receipt is gone, or a failure
\* and the database is as before
RunForget(id, db, exit_ok) ==
    IF exit_ok /\ id \in ReceiptLines(db)
    THEN WithoutLine(splitlines(db), id)
    ELSE db

\* salt.utils.mac_utils.execute_return_success: true or false by exit status
execute_return_success(exit_ok) == exit_ok

---------------------------------------------------------------------------
(* install and forget; each gives its result and the database it leaves *)

Outcome(r, db) == [r |-> r, db |-> db]

\* urllib.parse.urlparse(url).scheme: the text before the first colon, in
\* lower case, when it is not empty and is made of scheme characters
IsSchemeRun(tok) == tok \in {"http", "FTP"}
LowerTok(tok) == IF tok = "FTP" THEN "ftp" ELSE tok
urlparse_scheme(url) ==
    LET i == IndexOf(url, COLON)
    IN  IF i > 1 /\ \A j \in 1..(i - 1) : IsSchemeRun(url[j])
        THEN [j \in 1..(i - 1) |-> LowerTok(url[j])]
        ELSE <<>>

\* _install_from_path without its os.path.exists check
_install_from_path_unchecked(path, db, fs, exit_ok) ==
    Outcome(Returned(execute_return_success(exit_ok),
                     <<Ev(CMD_INSTALLER, path, exit_ok)>>),
            RunInstaller(path, db, exit_ok))

_install_from_path(path, db, fs, exit_ok) ==
    IF path \notin fs
    THEN Outcome(Raised("SaltInvocationError", Format("File not found: {}", path),
                        <<Ev(CALL_EXISTS, path, FALSE)>>),
                 db)
    ELSE Outcome(Returned(execute_return_success(exit_ok),
                          <<Ev(CALL_EXISTS, path, TRUE),
                            Ev(CMD_INSTALLER, path, exit_ok)>>),
                 RunInstaller(path, db, exit_ok))

\* install with the source parsed and checked before the is_installed check
install_parse_first(source, package_id, db, fs, exit_ok) ==
    LET uri_scheme == urlparse_scheme(source)
        t == <<Ev(CALL_URLPARSE, source, TRUE)>>
    IN  IF ~(uri_scheme = <<>>)
        THEN Outcome(Raised("SaltInvocationError",
                            Format("Unsupported scheme for source uri: {}",
                                   uri_scheme),
                            t),
                     db)
        ELSE
        LET chk == is_installed(package_id, db)
        IN  IF chk.val THEN Outcome(Returned(TRUE, t \o chk.trace), db)
            ELSE
            LET inst == _install_from_path(source, db, fs, exit_ok)
            IN  IF inst.r.tag # "ok"
                THEN Outcome([inst.r EXCEPT !.trace = t \o chk.trace \o @], inst.db)
                ELSE LET again == is_installed(package_id, inst.db)
                     IN  Outcome(Returned(again.val,
                                          t \o chk.trace \o inst.r.trace
                                            \o again.trace),
                                 inst.db)

\* install without its scheme check
install_no_scheme_check(source, package_id, db, fs, exit_ok) ==
    LET chk == is_installed(package_id, db)
    IN  IF chk.val THEN Outcome(Returned(TRUE, chk.trace), db)
        ELSE
        LET inst == _install_from_path(source, db, fs, exit_ok)
        IN  IF inst.r.tag # "ok"
            THEN Outcome([inst.r EXCEPT !.trace = chk.trace \o @], inst.db)
            ELSE LET again == is_installed(package_id, inst.db)
                 IN  Outcome(Returned(again.val,
                                      chk.trace \o inst.r.trace \o again.trace),
                             inst.db)

\* install returning what _install_from_path returned
install_trust_exit(source, package_id, db, fs, exit_ok) ==
    LET chk == is_installed(package_id, db)
    IN  IF chk.val THEN Outcome(Returned(TRUE, chk.trace), db)
        ELSE
        LET uri_scheme == urlparse_scheme(source)
            t == chk.trace \o <<Ev(CALL_URLPARSE, source, TRUE)>>
        IN  IF ~(uri_scheme = <<>>)
            THEN Outcome(Raised("SaltInvocationError",
                                Format("Unsupported scheme for source uri: {}",
                                       uri_scheme),
                                t),
                         db)
            ELSE
            LET inst == _install_from_path(source, db, fs, exit_ok)
            IN  IF inst.r.tag # "ok"
                THEN Outcome([inst.r EXCEPT !.trace = t \o @], inst.db)
                ELSE Outcome(Returned(inst.r.val, t \o inst.r.trace), inst.db)

install(source, package_id, db, fs, exit_ok) ==
    LET chk == is_installed(package_id, db)
    IN  IF chk.val THEN Outcome(Returned(TRUE, chk.trace), db)
        ELSE
        LET uri_scheme == urlparse_scheme(source)
            t == chk.trace \o <<Ev(CALL_URLPARSE, source, TRUE)>>
        IN  IF ~(uri_scheme = <<>>)
            THEN Outcome(Raised("SaltInvocationError",
                                Format("Unsupported scheme for source uri: {}",
                                       uri_scheme),
                                t),
                         db)
            ELSE
            LET inst == _install_from_path(source, db, fs, exit_ok)
            IN  IF inst.r.tag # "ok"
                THEN Outcome([inst.r EXCEPT !.trace = t \o @], inst.db)
                ELSE LET again == is_installed(package_id, inst.db)
                     IN  Outcome(Returned(again.val,
                                          t \o inst.r.trace \o again.trace),
                                 inst.db)

\* forget returning the command's status, with no check afterwards
forget_trust_exit(package_id, db, exit_ok) ==
    LET after == RunForget(package_id, db, exit_ok)
        done == execute_return_success(exit_ok)
    IN  Outcome(Returned(done, <<Ev(CMD_FORGET, package_id, exit_ok)>>), after)

\* forget that looks the ID up first and leaves an unknown ID alone
forget_if_installed(package_id, db, exit_ok) ==
    LET before == is_installed(package_id, db)
    IN  IF ~before.val THEN Outcome(Returned(TRUE, before.trace), db)
        ELSE
        LET after == RunForget(package_id, db, exit_ok)
            done == execute_return_success(exit_ok)
            chk == is_installed(package_id, after)
        IN  Outcome(Returned(~chk.val,
                             before.trace \o <<Ev(CMD_FORGET, package_id, exit_ok)>>
                                \o chk.trace),
                    after)

forget(package_id, db, exit_ok) ==
    LET after == RunForget(package_id, db, exit_ok)
        done == execute_return_success(exit_ok)
        chk == is_installed(package_id, after)
    IN  Outcome(Returned(~chk.val,
                         <<Ev(CMD_FORGET, package_id, exit_ok)>> \o chk.trace),
                after)

---------------------------------------------------------------------------
(* The state machine *)

Call(op, pkg, source, convert, out, r, db) ==
    [op |-> op, package_id |-> pkg, source |-> source, convert |-> convert,
     out |-> out, tag |-> r.tag, val |-> r.val, msg |-> r.msg,
     trace |-> r.trace, pre |-> db]

RECURSIVE Render(_)
Render(ids) == IF ids = <<>> THEN <<>> ELSE Head(ids) \o <<NL>> \o Render(Tail(ids))

SeqsUpTo(S, n) == UNION {[1..k -> S] : k \in 0..n}

Receipts ==
    {s \in SeqsUpTo(PackageIDs, MaxPkgs) :
        \A i, j \in DOMAIN s : i # j => s[i] # s[j]}

NoCall ==
    [op |-> "none", package_id |-> <<>>, source |-> <<>>, convert |-> FALSE,
     out |-> <<>>, tag |-> "ok", val |-> NoVal, msg |-> NoMsg,
     trace |-> <<>>, pre |-> <<>>]

Init ==
    /\ pkgsText \in {Render(s) : s \in Receipts}
    /\ files \in SUBSET LocalFiles
    /\ last = NoCall

\* any text at all as the listing command's output
InitAnyText ==
    /\ pkgsText \in SeqsUpTo(ListChars, MaxText)
    /\ files = LocalFiles
    /\ last = NoCall

List ==
    /\ last' = Call("list", <<>>, <<>>, FALSE, <<>>, list_(pkgsText), pkgsText)
    /\ UNCHANGED <<pkgsText, files>>

IsInstalled ==
    \E p \in PackageIDs :
        /\ last' = Call("is_installed", p, <<>>, FALSE, <<>>,
                        is_installed(p, pkgsText), pkgsText)
        /\ UNCHANGED <<pkgsText, files>>

Info ==
    \E p \in PackageIDs, out \in InfoOutputs :
        /\ last' = Call("info", p, <<>>, FALSE, out, info(p, pkgsText, out), pkgsText)
        /\ UNCHANGED <<pkgsText, files>>

Version ==
    \E p \in PackageIDs, out \in InfoOutputs :
        /\ last' = Call("version", p, <<>>, FALSE, out,
                        version(p, pkgsText, out), pkgsText)
        /\ UNCHANGED <<pkgsText, files>>

InstallTime ==
    \E p \in PackageIDs, convert \in BOOLEAN, out \in InfoOutputs :
        /\ last' = Call("install_time", p, <<>>, convert, out,
                        install_time(p, convert, pkgsText, out), pkgsText)
        /\ UNCHANGED <<pkgsText, files>>

Install ==
    \E source \in Sources, p \in PackageIDs, exit_ok \in BOOLEAN :
        LET o == install(source, p, pkgsText, files, exit_ok)
        IN  /\ last' = Call("install", p, source, FALSE, <<>>, o.r, pkgsText)
            /\ pkgsText' = o.db
            /\ UNCHANGED files

Forget ==
    \E p \in PackageIDs, exit_ok \in BOOLEAN :
        LET o == forget(p, pkgsText, exit_ok)
        IN  /\ last' = Call("forget", p, <<>>, FALSE, <<>>, o.r, pkgsText)
            /\ pkgsText' = o.db
            /\ UNCHANGED files

Next ==
    \/ List
    \/ IsInstalled
    \/ Info
    \/ Version
    \/ InstallTime
    \/ Install
    \/ Forget

Spec == Init /\ [][Next]_vars

\* the calls that read or change the listing, on any listing text
NextListing ==
    \/ List
    \/ IsInstalled
    \/ Install
    \/ Forget

SpecAnyText == InitAnyText /\ [][NextListing]_vars

---------------------------------------------------------------------------
(* What the properties speak of *)

\* p is an element of what list() gives for the database db
Listed(db, p) == \E i \in DOMAIN list_(db).val : list_(db).val[i] = p

Ran(trace, call) == \E i \in DOMAIN trace : trace[i].call = call

Invocations(trace) ==
    Cardinality({i \in DOMAIN trace : trace[i].call \in ProcessCalls})

InfoFamily == {"info", "version", "install_time"}

NonEmpty(line) == line # <<>>

\* the mapping a split on the first colon of every line gives
FirstColonPairs(out) ==
    LET lines == splitlines(out)
    IN  [i \in DOMAIN lines |->
            <<SubSeq(lines[i], 1, IndexOf(lines[i], COLON) - 1),
              Tail_after(lines[i], IndexOf(lines[i], COLON))>>]

FirstColonDict(out) ==
    LET ps == FirstColonPairs(out)
    IN  [k \in {ps[i][1] : i \in DOMAIN ps} |->
            ps[CHOOSE i \in DOMAIN ps :
                    ps[i][1] = k /\ \A j \in DOMAIN ps : ps[j][1] = k => j <= i][2]]

---------------------------------------------------------------------------
(* The properties *)

\* C1: install(source, p) with p in the listing returns true after the one
\* listing command and nothing else: the source is not parsed, the path is
\* not looked up, the installer is not run, the database is as it was.
C1_InstallShortCircuit ==
    (last.op = "install" /\ Listed(last.pre, last.package_id)) =>
        /\ last.tag = "ok"
        /\ last.val = TRUE
        /\ last.trace = <<Ev(CMD_PKGS, <<>>, TRUE)>>
        /\ pkgsText = last.pre

C1_Witness ==
    /\ last.op = "install"
    /\ Listed(last.pre, last.package_id)
    /\ last.source \in {PATH_NONE, URI_HTTP}
    /\ last.tag = "ok"

\* C2, as claimed: install with a source that has a scheme fails with an
\* invalid-argument error whatever the state of p, and runs no installer.
C2_RemoteRejectedWhateverState ==
    (last.op = "install" /\ urlparse_scheme(last.source) # <<>>) =>
        /\ last.tag = "SaltInvocationError"
        /\ ~Ran(last.trace, CMD_INSTALLER)

\* C2, amended: install with a source that has a scheme fails with the
\* unsupported-scheme error when p is not installed, and returns true when p
\* is installed; in neither case is the installer run.
C2_RemoteRejectedUnlessInstalled ==
    (last.op = "install" /\ urlparse_scheme(last.source) # <<>>) =>
        /\ ~Ran(last.trace, CMD_INSTALLER)
        /\ pkgsText = last.pre
        /\ IF Listed(last.pre, last.package_id)
           THEN last.tag = "ok" /\ last.val = TRUE
           ELSE /\ last.tag = "SaltInvocationError"
                /\ last.msg = Format("Unsupported scheme for source uri: {}",
                                     urlparse_scheme(last.source))

C2_Witness ==
    /\ last.op = "install"
    /\ last.source = URI_FTP
    /\ ~Listed(last.pre, last.package_id)
    /\ last.tag = "SaltInvocationError"
    /\ last.msg = Format("Unsupported scheme for source uri: {}", <<"ftp">>)

\* C3: when install returns a value, the value is true exactly when p is in
\* the listing after the attempt; an installer that exits with a failure
\* does not make install raise.
C3_InstallResultIsMembership ==
    last.op = "install" =>
        /\ last.tag = "ok" => last.val = Listed(pkgsText, last.package_id)
        /\ (\E i \in DOMAIN last.trace :
                last.trace[i].call = CMD_INSTALLER /\ ~last.trace[i].ok)
            => last.tag = "ok"

C3_Witness ==
    /\ last.op = "install"
    /\ \E i \in DOMAIN last.trace :
            last.trace[i].call = CMD_INSTALLER /\ ~last.trace[i].ok
    /\ last.tag = "ok"
    /\ last.val = FALSE
    /\ ~Listed(pkgsText, last.package_id)

\* C4, as claimed: install with a scheme-less path that does not exist fails
\* with an invalid-argument error, runs no installer and leaves the database.
C4_MissingPathFails ==
    (/\ last.op = "install"
     /\ urlparse_scheme(last.source) = <<>>
     /\ last.source \notin files) =>
        /\ last.tag = "SaltInvocationError"
        /\ ~Ran(last.trace, CMD_INSTALLER)
        /\ pkgsText = last.pre

\* C4, amended: install with a scheme-less path that does not exist, for a p
\* that is not installed, fails with the file-not-found error (for an
\* installed p it returns true); the installer is never run for a missing
\* path and the database is unchanged.
C4_MissingPathFailsUnlessInstalled ==
    (/\ last.op = "install"
     /\ urlparse_scheme(last.source) = <<>>
     /\ last.source \notin files) =>
        /\ ~Ran(last.trace, CMD_INSTALLER)
        /\ pkgsText = last.pre
        /\ IF Listed(last.pre, last.package_id)
           THEN last.tag = "ok" /\ last.val = TRUE
           ELSE /\ last.tag = "SaltInvocationError"
                /\ last.msg = Format("File not found: {}", last.source)

C4_Witness ==
    /\ last.op = "install"
    /\ last.source = PATH_NONE
    /\ ~Listed(last.pre, last.package_id)
    /\ last.tag = "SaltInvocationError"
    /\ Ran(last.trace, CALL_EXISTS)

\* C5: for p not in the listing, info, version and install_time (with either
\* value of convert) fail with the invalid-argument error that names p, and
\* the package-info command is not run.
C5_NotInstalledFails ==
    (last.op \in InfoFamily /\ ~Listed(last.pre, last.package_id)) =>
        /\ last.tag = "SaltInvocationError"
        /\ last.msg = Format("Package ID {} is not installed", last.package_id)
        /\ ~Ran(last.trace, CMD_INFO)

C5_Witness ==
    /\ last.op = "install_time"
    /\ last.convert
    /\ ~Listed(last.pre, last.package_id)
    /\ last.tag = "SaltInvocationError"

\* C6, as claimed: once forget(p) has returned, p is not in the listing; the
\* value returned is true exactly when p is absent from the listing after the
\* command; forget does not raise; for a p never installed it returns true.
C6_ForgetAlwaysRemoves ==
    last.op = "forget" =>
        /\ ~Listed(pkgsText, last.package_id)
        /\ last.tag = "ok"
        /\ last.val = ~Listed(pkgsText, last.package_id)
        /\ ~Listed(last.pre, last.package_id) => last.val = TRUE

\* C6, amended: forget(p) does not raise and returns true exactly when p is
\* absent from the listing after the command, so p is not installed once
\* forget has returned true; for a p never installed it returns true.
C6_ForgetReportsRemoval ==
    last.op = "forget" =>
        /\ last.tag = "ok"
        /\ last.val = ~Listed(pkgsText, last.package_id)
        /\ last.val = TRUE => ~Listed(pkgsText, last.package_id)
        /\ ~Listed(last.pre, last.package_id) => last.val = TRUE

C6_Witness ==
    /\ last.op = "forget"
    /\ Listed(last.pre, last.package_id)
    /\ last.val = TRUE
    /\ ~Listed(pkgsText, last.package_id)

\* C7: for an installed p, info splits every line on its first colon only:
\* when every line has a colon the call succeeds and gives the mapping from
\* the text before the first colon to all the text after it, the last
\* occurrence of a repeated key being kept.
C7_InfoSplitsOnFirstColon ==
    (/\ last.op = "info"
     /\ Listed(last.pre, last.package_id)
     /\ \A i \in DOMAIN splitlines(last.out) :
            IndexOf(splitlines(last.out)[i], COLON) # 0) =>
        /\ last.tag = "ok"
        /\ last.val = FirstColonDict(last.out)

\* C8: is_installed(p) does not raise and is true exactly when p equals an
\* element of list() taken on the same database.
C8_IsInstalledIsMembership ==
    last.op = "is_installed" =>
        /\ last.tag = "ok"
        /\ last.val = (\E i \in DOMAIN list_(last.pre).val :
                            list_(last.pre).val[i] = last.package_id)

C8_Witness ==
    /\ last.op = "is_installed"
    /\ last.package_id = ID_a
    /\ Listed(last.pre, ID_ab)
    /\ last.val = FALSE

\* C9: list() gives exactly the non-empty lines of the command's output, in
\* order, duplicates kept; no element is the empty string.
C9_ListIsNonEmptyLines ==
    last.op = "list" =>
        /\ last.tag = "ok"
        /\ last.val = SelectSeq(splitlines(last.pre), NonEmpty)
        /\ \A i \in DOMAIN last.val : last.val[i] # <<>>

\* C10, as claimed: every call of a public operation runs exactly one
\* external process.
C10_OneInvocationPerCall ==
    last.op # "none" => Invocations(last.trace) = 1

\* C10, amended: list and is_installed run one process; info, version and
\* install_time run one for a p that is not installed and two for an
\* installed p; install runs one when it returns early or rejects its source
\* and three when it runs the installer; forget runs two.
C10_InvocationsPerCall ==
    /\ last.op \in {"list", "is_installed"} => Invocations(last.trace) = 1
    /\ last.op \in InfoFamily =>
            Invocations(last.trace)
                = (IF Listed(last.pre, last.package_id) THEN 2 ELSE 1)
    /\ last.op = "install" =>
            Invocations(last.trace)
                = (IF Ran(last.trace, CMD_INSTALLER) THEN 3 ELSE 1)
    /\ last.op = "forget" => Invocations(last.trace) = 2

C10_Witness ==
    /\ last.op = "install"
    /\ Invocations(last.trace) = 3
    /\ last.trace[Len(last.trace)].call = CMD_PKGS

====
